---- MODULE Spec2Model ----
(***************************************************************************)
(* State-machine model of the task manager of EDP_Finals                   *)
(* (src/task_manager.py) together with the remote store adapter it drives  *)
(* (src/database_manager.py).                                              *)
(*                                                                         *)
(* Representation of Python values:                                        *)
(*   - strings that the code inspects (titles, priorities) are sequences   *)
(*     of one-character strings; None and "" are both <<>> (the code only  *)
(*     ever tests their truthiness);                                       *)
(*   - task ids are integers, None is NoneId;                              *)
(*   - timestamps (_now_iso, second precision) are clock readings, None is *)
(*     NoneTs;                                                             *)
(*   - due dates are day numbers, None is NoDue, a string that             *)
(*     datetime.fromisoformat rejects is BadDue.                           *)
(*                                                                         *)
(* The manager is single-threaded and synchronous: every call is one step, *)
(* and each call reads a later clock than the call before it.              *)
(***************************************************************************)
EXTENDS Integers, Sequences, FiniteSets, TLC

\* ------------------------------------------------------------------------
\* Bounds of the model
\* ------------------------------------------------------------------------
MaxTasks == 2
MaxId == 3
MaxClock == 4
MaxDue == 13
MaxDay == 32
MaxSorted == 3
MaxRaw == 4

\* ------------------------------------------------------------------------
\* Encodings of None
\* ------------------------------------------------------------------------
NoneId == -1
NoneTs == 0
NoDue == -1
BadDue == -2

\* ------------------------------------------------------------------------
\* Strings
\* ------------------------------------------------------------------------
LowerLetters == <<"a","b","c","d","e","f","g","h","i","j","k","l","m",
                  "n","o","p","q","r","s","t","u","v","w","x","y","z">>
UpperLetters == <<"A","B","C","D","E","F","G","H","I","J","K","L","M",
                  "N","O","P","Q","R","S","T","U","V","W","X","Y","Z">>

IsLower(c) == \E i \in 1..26 : LowerLetters[i] = c
IsUpper(c) == \E i \in 1..26 : UpperLetters[i] = c
IsCased(c) == IsLower(c) \/ IsUpper(c)
IsSpace(c) == c \in {" ", "\t", "\n"}

ToLower(c) == IF IsUpper(c)
              THEN LowerLetters[CHOOSE i \in 1..26 : UpperLetters[i] = c]
              ELSE c
ToUpper(c) == IF IsLower(c)
              THEN UpperLetters[CHOOSE i \in 1..26 : LowerLetters[i] = c]
              ELSE c

\* str.lower()
StrLower(s) == [i \in 1..Len(s) |-> ToLower(s[i])]

\* str.title(): a cased character is upper-cased when it starts a run of
\* cased characters and lower-cased otherwise.
StrTitle(s) == [i \in 1..Len(s) |->
                  IF i > 1 /\ IsCased(s[i-1]) THEN ToLower(s[i]) ELSE ToUpper(s[i])]

\* str.strip()
StrStrip(s) ==
  IF \A i \in 1..Len(s) : IsSpace(s[i]) THEN <<>>
  ELSE LET a == CHOOSE i \in 1..Len(s) :
                  ~IsSpace(s[i]) /\ \A j \in 1..(i-1) : IsSpace(s[j])
           b == CHOOSE i \in 1..Len(s) :
                  ~IsSpace(s[i]) /\ \A j \in (i+1)..Len(s) : IsSpace(s[j])
       IN  SubSeq(s, a, b)

\* ------------------------------------------------------------------------
\* Task entity model
\* ------------------------------------------------------------------------
Low == <<"L","o","w">>
Normal == <<"N","o","r","m","a","l">>
High == <<"H","i","g","h">>
PRIORITY_LEVELS == <<Low, Normal, High>>

Pending == "Pending"
Completed == "Completed"

\* Variant of _normalize_priority that returns the stripped, title-cased
\* string when it matches no level.
NormalizePriorityKeepUnknown(p) ==
  IF p = <<>> THEN Normal
  ELSE LET q == StrTitle(StrStrip(p))
       IN  IF ~(\E i \in 1..3 : PRIORITY_LEVELS[i] = q)
           THEN IF \E i \in 1..3 : StrLower(PRIORITY_LEVELS[i]) = StrLower(q)
                THEN PRIORITY_LEVELS[CHOOSE i \in 1..3 :
                        /\ StrLower(PRIORITY_LEVELS[i]) = StrLower(q)
                        /\ \A j \in 1..(i-1) :
                              StrLower(PRIORITY_LEVELS[j]) # StrLower(q)]
                ELSE q
           ELSE q

\* Variant of _normalize_priority that does not strip its argument.
NormalizePriorityNoStrip(p) ==
  IF p = <<>> THEN Normal
  ELSE LET q == StrTitle(p)
       IN  IF ~(\E i \in 1..3 : PRIORITY_LEVELS[i] = q)
           THEN IF \E i \in 1..3 : StrLower(PRIORITY_LEVELS[i]) = StrLower(q)
                THEN PRIORITY_LEVELS[CHOOSE i \in 1..3 :
                        /\ StrLower(PRIORITY_LEVELS[i]) = StrLower(q)
                        /\ \A j \in 1..(i-1) :
                              StrLower(PRIORITY_LEVELS[j]) # StrLower(q)]
                ELSE Normal
           ELSE q

\* _normalize_priority(p)
NormalizePriority(p) ==
  IF p = <<>> THEN Normal
  ELSE LET q == StrTitle(StrStrip(p))
       IN  IF ~(\E i \in 1..3 : PRIORITY_LEVELS[i] = q)
           THEN IF \E i \in 1..3 : StrLower(PRIORITY_LEVELS[i]) = StrLower(q)
                THEN PRIORITY_LEVELS[CHOOSE i \in 1..3 :
                        /\ StrLower(PRIORITY_LEVELS[i]) = StrLower(q)
                        /\ \A j \in 1..(i-1) :
                              StrLower(PRIORITY_LEVELS[j]) # StrLower(q)]
                ELSE Normal
           ELSE q

\* PriorityTask(...)
PriorityTask(id, title, due, status, prio, created, updated) ==
  [task_id |-> id, title |-> title, due_date |-> due, status |-> status,
   priority_level |-> prio, created_at |-> created, updated_at |-> updated]

\* A row of the remote table and of the Local Store file.
Row(id, title, due, prio, status, created, updated) ==
  [id |-> id, title |-> title, due_date |-> due, priority |-> prio,
   status |-> status, created_at |-> created, updated_at |-> updated]

\* Task.to_dict, the method of the base class: "priority" is None.
ToDictOfTask(t) ==
  Row(t.task_id, t.title, t.due_date, <<>>, t.status,
      t.created_at, t.updated_at)

\* PriorityTask.to_dict
ToDict(t) ==
  Row(t.task_id, t.title, t.due_date, t.priority_level, t.status,
      t.created_at, t.updated_at)

\* d.get("priority") or d.get("priority_level"): rows carry no
\* "priority_level" key, so a falsy "priority" yields None.
RowPriority(r) == IF r.priority # <<>> THEN r.priority ELSE <<>>

\* PriorityTask.from_dict
FromDict(r) ==
  PriorityTask(r.id, r.title, r.due_date, r.status,
               NormalizePriority(RowPriority(r)), r.created_at, r.updated_at)

\* TaskManager.to_list_of_dicts: [t.to_dict() for t in self.tasks]
ToListOfDicts(ts) == [i \in 1..Len(ts) |-> ToDict(ts[i])]

\* [PriorityTask.from_dict(r) for r in rows]
FromRows(rows) == [i \in 1..Len(rows) |-> FromDict(rows[i])]

\* ------------------------------------------------------------------------
\* Remote store adapter (DatabaseManager with self.supabase set)
\*
\* Every adapter call has an outcome: "ok", "fail" (the adapter reports the
\* failure by returning None / [], as the methods of DatabaseManager do: they
\* catch every Exception of the client), or "raise" (the call raises, as an
\* adapter injected through TaskManager(db=...) may do on failure).
\* ------------------------------------------------------------------------
\* Outcomes of the write of the Local Store file (True: it succeeds; False:
\* open raises and save_json swallows the exception).
WritesSucceed == {TRUE}
WritesMayFail == BOOLEAN

StockOutcomes == {"ok", "fail"}

\* The outcomes to consider for a step: those of O when the step calls the
\* adapter, a single one when it does not.
RemoteCall(called, O) == IF called THEN O ELSE {"ok"}
InjectedOutcomes == {"ok", "raise"}

\* Timestamp columns of an inserted row: filled by the server when the
\* table has them, absent otherwise. The server writes its own clock in its
\* own format (fractional seconds, "+00:00"), a string no call of _now_iso
\* returns: -n is the server's timestamp of the instant of the client's n.
ServerStamp(st, now) == IF st THEN -now ELSE NoneTs

\* add_task_to_db: the row the server creates (response.data[0]).
InsertedRow(nid, title, due, prio, status, st, now) ==
  Row(nid, title, due, prio, status, ServerStamp(st, now), ServerStamp(st, now))

\* get_all_tasks: response.data or [], [] on failure.
GetAllTasks(rem, out) == IF out = "ok" THEN rem ELSE <<>>

\* update_task_status: update({"status": s}).eq("id", id)
UpdateTaskStatus(rem, out, id, status) ==
  IF out = "ok"
  THEN [i \in 1..Len(rem) |->
          IF rem[i].id = id THEN [rem[i] EXCEPT !.status = status] ELSE rem[i]]
  ELSE rem

\* delete_task: delete().eq("id", id)
DbDeleteTask(rem, out, id) ==
  IF out = "ok" THEN SelectSeq(rem, LAMBDA r : r.id # id) ELSE rem

\* ------------------------------------------------------------------------
\* State
\* ------------------------------------------------------------------------
VARIABLES
  tasks,     \* TaskManager.tasks, the in-memory collection
  file,      \* contents of the Local Store file (a sequence of rows)
  remote,    \* rows of the remote table, ordered by id
  nextId,    \* next id the remote table issues
  supabase,  \* db.supabase is set (the remote store is active)
  stamps,    \* the remote table fills created_at / updated_at on insert
  clock,     \* what _now_iso() returns
  last       \* the last call: its arguments, its result, what it did

vars == <<tasks, file, remote, nextId, supabase, stamps, clock, last>>

\* ------------------------------------------------------------------------
\* Helpers of the manager
\* ------------------------------------------------------------------------
MaxOf(S) == CHOOSE x \in S : \A y \in S : y <= x

\* t.task_id or 0
IdOrZero(t) == IF t.task_id = NoneId \/ t.task_id = 0 THEN 0 ELSE t.task_id

\* Variant of _next_local_id that counts the tasks instead of taking the
\* maximum id.
NextLocalIdLen(ts) == Len(ts) + 1

\* _next_local_id: max((t.task_id or 0 for t in self.tasks), default=0) + 1

NextLocalId(ts) ==
  IF ts = <<>> THEN 1
  ELSE MaxOf({IdOrZero(ts[i]) : i \in 1..Len(ts)}) + 1

\* Variant of the lookup that falls back to the first task when no task has
\* the id.
FindTaskOrFirst(ts, tid) ==
  IF \E i \in 1..Len(ts) : ts[i].task_id = tid
  THEN CHOOSE i \in 1..Len(ts) :
         ts[i].task_id = tid /\ \A j \in 1..(i-1) : ts[j].task_id # tid
  ELSE IF ts # <<>> THEN 1 ELSE 0

\* next((t for t in self.tasks if t.task_id == task_id), None): the index of
\* the first task with that id, 0 when there is none.
FindTask(ts, tid) ==
  IF \E i \in 1..Len(ts) : ts[i].task_id = tid
  THEN CHOOSE i \in 1..Len(ts) :
         ts[i].task_id = tid /\ \A j \in 1..(i-1) : ts[j].task_id # tid
  ELSE 0

\* save_json: the file is replaced by the serialized collection; a failed
\* write is swallowed.
SaveJson(f, ts, ok) == IF ok THEN ToListOfDicts(ts) ELSE f

\* _load_json_tasks
LoadJsonTasks(f) == FromRows(f)

\* load: from the remote store when it is active, from the file otherwise
\* and when the remote read raises.
Load(active, rem, f, out) ==
  IF active /\ out # "raise" THEN FromRows(GetAllTasks(rem, out))
  ELSE LoadJsonTasks(f)

\* ------------------------------------------------------------------------
\* sync_with_remote
\* ------------------------------------------------------------------------
\* remote_by_id = {r.get("id"): r for r in remote_rows if r.get("id") is not
\* None}, as the sequence of its values in iteration order (a key keeps the
\* position of its first row and the value of its last row).
RemoteById(rows) ==
  LET idx    == [i \in 1..Len(rows) |-> i]
      firsts == SelectSeq(idx, LAMBDA i :
                  /\ rows[i].id # NoneId
                  /\ \A j \in 1..(i-1) : rows[j].id # rows[i].id)
  IN  [k \in 1..Len(firsts) |->
         rows[MaxOf({j \in 1..Len(rows) : rows[j].id = rows[firsts[k]].id})]]

\* local_by_id = {t.task_id: t for t in self.tasks if t.task_id is not None}:
\* the index of the task the dictionary holds for id (the last one with that
\* id), 0 when the id is not a key.
LocalIndex(ts, id) ==
  IF id # NoneId /\ \E i \in 1..Len(ts) : ts[i].task_id = id
  THEN MaxOf({i \in 1..Len(ts) : ts[i].task_id = id})
  ELSE 0

RemoteSimple(r) ==
  [title |-> r.title, due_date |-> r.due_date, status |-> r.status,
   priority_level |-> NormalizePriority(RowPriority(r)),
   created_at |-> r.created_at, updated_at |-> r.updated_at]

LocalSimple(t) ==
  [title |-> t.title, due_date |-> t.due_date, status |-> t.status,
   priority_level |-> t.priority_level,
   created_at |-> t.created_at, updated_at |-> t.updated_at]

\* dict.get(key, default)
DictGet(d, k, default) == IF k \in DOMAIN d THEN d[k] ELSE default

\* Lines 362-367: the local task overwritten from remote_simple.
OverwriteLocal(t, rs, now) ==
  [t EXCEPT !.title = rs.title,
            !.due_date = rs.due_date,
            !.status = rs.status,
            !.priority_level = rs.priority_level,
            !.created_at = DictGet(rs, "created_at", t.created_at),
            !.updated_at = DictGet(rs, "updated_at", now)]

\* Variant of the pull loop that overwrites without testing prefer_local.
PullRowIgnorePrefer(acc, r, n0, prefer, now) ==
  LET i == LocalIndex(SubSeq(acc.tasks, 1, n0), r.id)
  IN  IF i # 0
      THEN IF RemoteSimple(r) # LocalSimple(acc.tasks[i])
           THEN [acc EXCEPT !.tasks[i] = OverwriteLocal(@, RemoteSimple(r), now),
                            !.updated = @ + 1]
           ELSE acc
      ELSE [acc EXCEPT !.tasks = Append(@, FromDict(r)),
                       !.pulled = @ + 1]

\* Lines 342-372: one iteration of the pull loop, for the row r. n0 is the
\* length of the collection when local_by_id was built.
PullRow(acc, r, n0, prefer, now) ==
  LET i == LocalIndex(SubSeq(acc.tasks, 1, n0), r.id)
  IN  IF i # 0
      THEN IF ~prefer /\ RemoteSimple(r) # LocalSimple(acc.tasks[i])
           THEN [acc EXCEPT !.tasks[i] = OverwriteLocal(@, RemoteSimple(r), now),
                            !.updated = @ + 1]
           ELSE acc
      ELSE [acc EXCEPT !.tasks = Append(@, FromDict(r)),
                       !.pulled = @ + 1]

RECURSIVE PullRows(_, _, _, _, _, _)
PullRows(acc, byId, k, n0, prefer, now) ==
  IF k > Len(byId) THEN acc
  ELSE PullRows(PullRow(acc, byId[k], n0, prefer, now), byId, k + 1, n0, prefer, now)

\* Variant of the push loop that counts a push only when the insert returned
\* a row.
PushTaskCountOk(acc, i, remoteIds, outs, st, now) ==
  LET t == acc.tasks[i]
  IN  IF t.task_id = NoneId \/ t.task_id \notin remoteIds
      THEN LET out == outs[Len(acc.calls) + 1]
               row == InsertedRow(acc.nextId, t.title, t.due_date,
                                  t.priority_level, t.status, st, now)
           IN  IF out = "raise"
               THEN [acc EXCEPT !.calls = Append(@, i), !.raised = TRUE]
               ELSE IF out = "ok"
               THEN [acc EXCEPT !.tasks[i].task_id = row.id,
                                !.remote = Append(@, row),
                                !.nextId = @ + 1,
                                !.pushed = @ + 1,
                                !.calls = Append(@, i)]
               ELSE [acc EXCEPT !.calls = Append(@, i)]
      ELSE acc

\* Variant of the push loop that counts the push before the insert is called.
PushTaskCountFirst(acc, i, remoteIds, outs, st, now) ==
  LET t == acc.tasks[i]
  IN  IF t.task_id = NoneId \/ t.task_id \notin remoteIds
      THEN LET out == outs[Len(acc.calls) + 1]
               row == InsertedRow(acc.nextId, t.title, t.due_date,
                                  t.priority_level, t.status, st, now)
           IN  IF out = "raise"
               THEN [acc EXCEPT !.pushed = @ + 1,
                                !.calls = Append(@, i), !.raised = TRUE]
               ELSE IF out = "ok"
               THEN [acc EXCEPT !.tasks[i].task_id = row.id,
                                !.remote = Append(@, row),
                                !.nextId = @ + 1,
                                !.pushed = @ + 1,
                                !.calls = Append(@, i)]
               ELSE [acc EXCEPT !.pushed = @ + 1,
                                !.calls = Append(@, i)]
      ELSE acc

\* Variant of the push loop that leaves the local id alone after an insert.
PushTaskKeepId(acc, i, remoteIds, outs, st, now) ==
  LET t == acc.tasks[i]
  IN  IF t.task_id = NoneId \/ t.task_id \notin remoteIds
      THEN LET out == outs[Len(acc.calls) + 1]
               row == InsertedRow(acc.nextId, t.title, t.due_date,
                                  t.priority_level, t.status, st, now)
           IN  IF out = "raise"
               THEN [acc EXCEPT !.calls = Append(@, i), !.raised = TRUE]
               ELSE IF out = "ok"
               THEN [acc EXCEPT !.remote = Append(@, row),
                                !.nextId = @ + 1,
                                !.pushed = @ + 1,
                                !.calls = Append(@, i)]
               ELSE [acc EXCEPT !.pushed = @ + 1,
                                !.calls = Append(@, i)]
      ELSE acc

\* Lines 377-388: one iteration of the push loop, for the task at index i.
\* calls lists the indices of the tasks passed to add_task_to_db so far.
PushTask(acc, i, remoteIds, outs, st, now) ==
  LET t == acc.tasks[i]
  IN  IF t.task_id = NoneId \/ t.task_id \notin remoteIds
      THEN LET out == outs[Len(acc.calls) + 1]
               row == InsertedRow(acc.nextId, t.title, t.due_date,
                                  t.priority_level, t.status, st, now)
           IN  IF out = "raise"
               THEN [acc EXCEPT !.calls = Append(@, i), !.raised = TRUE]
               ELSE IF out = "ok"
               THEN [acc EXCEPT !.tasks[i].task_id = row.id,
                                !.remote = Append(@, row),
                                !.nextId = @ + 1,
                                !.pushed = @ + 1,
                                !.calls = Append(@, i)]
               ELSE [acc EXCEPT !.pushed = @ + 1,
                                !.calls = Append(@, i)]
      ELSE acc

RECURSIVE PushTasks(_, _, _, _, _, _)
PushTasks(acc, i, remoteIds, outs, st, now) ==
  IF i > Len(acc.tasks) \/ acc.raised THEN acc
  ELSE PushTasks(PushTask(acc, i, remoteIds, outs, st, now),
                 i + 1, remoteIds, outs, st, now)

\* Variant of the try block whose push loop tests the ids against the keys of
\* local_by_id, so that a task pulled in this call is pushed back.
SyncBodyRepushPulled(ts, rem, nid, prefer, sel, outs, st, now) ==
  LET start == [tasks |-> ts, remote |-> rem, nextId |-> nid,
                pushed |-> 0, pulled |-> 0, updated |-> 0,
                calls |-> <<>>, raised |-> FALSE]
  IN  IF sel = "raise" THEN [start EXCEPT !.raised = TRUE]
      ELSE LET byId      == RemoteById(GetAllTasks(rem, sel))
               pulled    == PullRows(start, byId, 1, Len(ts), prefer, now)
               remoteIds == {byId[k].id : k \in 1..Len(byId)}
                              \cap {ts[i].task_id : i \in 1..Len(ts)}
           IN  PushTasks(pulled, 1, remoteIds, outs, st, now)

\* Lines 336-393: the body of the try block. sel is the outcome of
\* get_all_tasks, outs[k] the outcome of the k-th add_task_to_db.
SyncBody(ts, rem, nid, prefer, sel, outs, st, now) ==
  LET start == [tasks |-> ts, remote |-> rem, nextId |-> nid,
                pushed |-> 0, pulled |-> 0, updated |-> 0,
                calls |-> <<>>, raised |-> FALSE]
  IN  IF sel = "raise" THEN [start EXCEPT !.raised = TRUE]
      ELSE LET byId      == RemoteById(GetAllTasks(rem, sel))
               pulled    == PullRows(start, byId, 1, Len(ts), prefer, now)
               remoteIds == {byId[k].id : k \in 1..Len(byId)}
           IN  PushTasks(pulled, 1, remoteIds, outs, st, now)

\* ------------------------------------------------------------------------
\* Inputs
\* ------------------------------------------------------------------------
Ta == <<"a">>
Tb == <<"b">>
Blank == <<" ">>

\* (title, due_date, priority) passed to add_task
AddInputs ==
  {[title |-> Ta, due_date |-> 10, priority |-> <<" ", "h", "I", "G", "H">>],
   [title |-> Blank, due_date |-> NoDue, priority |-> <<"u", "r", "g", "e", "n", "t">>]}
RawPriorities == {<<"l", "o", "w", " ">>}
\* task_id arguments: the ids of the collection and one id that no task has.
AbsentId == 0
TaskIds == {tasks[i].task_id : i \in 1..Len(tasks)} \cup {AbsentId}
SnoozeDays == {1, 3}

\* **fields of update_task
UpdateFields ==
  {[title |-> Tb, notes |-> Tb, priority_level |-> <<"h", "I", "g", "H", "\t">>],
   [status |-> Pending, due_date |-> BadDue]}

\* The record kept in last; every call overrides the fields it sets.
NoCall ==
  [op |-> "init", tid |-> NoneId, title |-> <<>>, prefer |-> FALSE,
   ret |-> "none", raised |-> FALSE, saveFailed |-> FALSE, insertOk |-> FALSE,
   pushed |-> 0, pulled |-> 0, updated |-> 0, sel |-> "ok", calls |-> <<>>,
   caught |-> FALSE, writing |-> FALSE, prev |-> <<>>,
   today |-> 0, score |-> 0, scores |-> <<>>, sorted |-> <<>>, days |-> 0,
   overdue |-> <<>>, raw |-> <<>>, level |-> <<>>,
   parsed |-> <<>>, before |-> <<>>]

\* Calls on the manager are made one after the other, each at a later
\* reading of the clock of _now_iso than the one before.
Called ==
  /\ ~last.writing
  /\ clock < MaxClock
  /\ clock' = clock + 1

\* ------------------------------------------------------------------------
\* Construction: DatabaseManager.__init__, TaskManager.__init__
\* ------------------------------------------------------------------------
InitRemotes(st) ==
  {<<>>, <<Row(1, Ta, NoDue, <<"h", "i", "g", "h">>, Pending,
              ServerStamp(st, 1), ServerStamp(st, 1))>>}

\* The Local Store file found at construction: empty, or rows left by an
\* earlier run or written by hand (any string may stand for the priority).
InitFiles ==
  {<<>>, <<Row(1, Tb, 10, <<"L", "O", "W">>, Pending, 1, 1),
           Row(2, Ta, NoDue, <<"A", "S", "A", "P">>, Completed, 1, 1)>>}

InitWith(O) ==
  \E active \in BOOLEAN, st \in BOOLEAN, f \in InitFiles, out \in O :
    \E r \in InitRemotes(st) :
      /\ active \/ (r = <<>> /\ ~st /\ out = "ok")
      /\ supabase = active
      /\ stamps = st
      /\ remote = r
      /\ nextId = Len(r) + 1
      /\ file = f
      /\ tasks = Load(active, r, f, out)
      /\ clock = 1
      /\ last = NoCall

Init == InitWith(StockOutcomes)
InitInjected == InitWith(InjectedOutcomes)

\* ------------------------------------------------------------------------
\* add_task
\* ------------------------------------------------------------------------
\* Lines 167-170: the task built from the row the remote insert returned.
RemoteCreated(row, now) ==
  LET t == FromDict(row)
  IN  [t EXCEPT !.created_at = IF @ = NoneTs THEN now ELSE @,
                !.updated_at = now]

\* Lines 175-176: the task created locally.
LocalCreated(ts, title, due, status, prio, now) ==
  PriorityTask(NextLocalId(ts), title, due, status, prio, now, now)

AddTaskCall(title, due, prio, status, out, saveOk) ==
  LET now        == clock
      priority_n == NormalizePriority(prio)
      row        == InsertedRow(nextId, title, due, priority_n, status, stamps, now)
  IN  /\ Called
      /\ Len(tasks) < MaxTasks
      /\ IF supabase /\ out = "raise"
         THEN /\ last' = [NoCall EXCEPT !.op = "add_task", !.title = title,
                                        !.ret = "raise", !.raised = TRUE]
              /\ UNCHANGED <<tasks, file, remote, nextId>>
         ELSE IF supabase /\ out = "ok"
         THEN /\ nextId <= MaxId
              /\ remote' = Append(remote, row)
              /\ nextId' = nextId + 1
              /\ tasks' = Append(tasks, RemoteCreated(row, now))
              /\ file' = SaveJson(file, tasks', saveOk)
              /\ last' = [NoCall EXCEPT !.op = "add_task", !.title = title,
                                        !.ret = "task", !.insertOk = TRUE,
                                        !.saveFailed = ~saveOk]
         ELSE /\ NextLocalId(tasks) <= MaxId
              /\ tasks' = Append(tasks, LocalCreated(tasks, title, due, status,
                                                     priority_n, now))
              /\ file' = SaveJson(file, tasks', saveOk)
              /\ last' = [NoCall EXCEPT !.op = "add_task", !.title = title,
                                        !.ret = "task", !.saveFailed = ~saveOk]
              /\ UNCHANGED <<remote, nextId>>
      /\ UNCHANGED <<supabase, stamps>>

AddTask(O, W) ==
  \E inp \in AddInputs, out \in RemoteCall(supabase, O), saveOk \in W :
    AddTaskCall(inp.title, inp.due_date, inp.priority, Pending, out, saveOk)

\* ------------------------------------------------------------------------
\* update_task, complete_task, set_priority
\* ------------------------------------------------------------------------
\* Variant of the field loop that resets the status when none is supplied.
ApplyFieldsResetStatus(t, fields, now) ==
  LET has(k) == k \in DOMAIN fields
  IN  [t EXCEPT !.title = IF has("title") THEN fields["title"] ELSE @,
                !.due_date = IF has("due_date") THEN fields["due_date"] ELSE @,
                !.status = IF has("status") THEN fields["status"] ELSE Pending,
                !.priority_level = IF has("priority_level")
                                   THEN NormalizePriority(fields["priority_level"])
                                   ELSE @,
                !.updated_at = now]

\* Lines 190-196: the allowed fields applied to the task, updated_at refreshed.
ApplyFields(t, fields, now) ==
  LET has(k) == k \in DOMAIN fields
  IN  [t EXCEPT !.title = IF has("title") THEN fields["title"] ELSE @,
                !.due_date = IF has("due_date") THEN fields["due_date"] ELSE @,
                !.status = IF has("status") THEN fields["status"] ELSE @,
                !.priority_level = IF has("priority_level")
                                   THEN NormalizePriority(fields["priority_level"])
                                   ELSE @,
                !.updated_at = now]

UpdateTaskCall(op, tid, fields, out, saveOk) ==
  LET i   == FindTask(tasks, tid)
      now == clock
  IN  /\ Called
      /\ IF i = 0
         THEN /\ last' = [NoCall EXCEPT !.op = op, !.tid = tid]
              /\ UNCHANGED <<tasks, file, remote>>
         ELSE /\ tasks' = [tasks EXCEPT ![i] = ApplyFields(@, fields, now)]
              /\ remote' = IF supabase /\ "status" \in DOMAIN fields
                           THEN UpdateTaskStatus(remote, out, tid, tasks'[i].status)
                           ELSE remote
              /\ file' = SaveJson(file, tasks', saveOk)
              /\ last' = [NoCall EXCEPT !.op = op, !.tid = tid, !.ret = "task",
                                        !.saveFailed = ~saveOk]
      /\ UNCHANGED <<nextId, supabase, stamps>>

UpdateTask(O, W) ==
  \E tid \in TaskIds, fields \in UpdateFields, saveOk \in W :
    \E out \in RemoteCall(supabase /\ "status" \in DOMAIN fields, O) :
      UpdateTaskCall("update_task", tid, fields, out, saveOk)

CompleteTask(O, W) ==
  \E tid \in TaskIds, out \in RemoteCall(supabase, O), saveOk \in W :
    UpdateTaskCall("complete_task", tid, [status |-> Completed], out, saveOk)

SetPriority(O, W) ==
  \E tid \in TaskIds, prio \in RawPriorities, saveOk \in W :
    UpdateTaskCall("set_priority", tid, [priority_level |-> prio], "ok", saveOk)

\* ------------------------------------------------------------------------
\* delete_task
\* ------------------------------------------------------------------------
DeleteTask(O, W) ==
  \E tid \in TaskIds, out \in RemoteCall(supabase, O), saveOk \in W :
    /\ Called
    /\ IF FindTask(tasks, tid) = 0
       THEN /\ last' = [NoCall EXCEPT !.op = "delete_task", !.tid = tid,
                                      !.ret = "false"]
            /\ UNCHANGED <<tasks, file, remote>>
       ELSE /\ remote' = IF supabase THEN DbDeleteTask(remote, out, tid) ELSE remote
            /\ tasks' = SelectSeq(tasks, LAMBDA t : t.task_id # tid)
            /\ file' = SaveJson(file, tasks', saveOk)
            /\ last' = [NoCall EXCEPT !.op = "delete_task", !.tid = tid,
                                      !.ret = "true", !.saveFailed = ~saveOk]
    /\ UNCHANGED <<nextId, supabase, stamps>>

\* ------------------------------------------------------------------------
\* Edit dialog of the GUI: save_changes (gui.py)
\* ------------------------------------------------------------------------
\* What the user can leave in the dialog's widgets: a title, a due date
\* (blank or a date), one of the levels of the priority box, a status.
DialogEntries ==
  [title : {Ta, Tb}, due_date : {NoDue, MaxDue},
   priority : {Low, Normal, High}, status : {Pending, Completed}]

\* save_changes for the selected task tid: the keyword arguments of the
\* update_task call (the first call never raises TypeError, update_task
\* takes **fields), then the two setattr on the task object. The notes
\* attribute is in no row and no comparison and is left out.
SaveChangesCall(tid, e, out, saveOk) ==
  LET i      == FindTask(tasks, tid)
      now    == clock
      fields == [title |-> e.title, due_date |-> e.due_date,
                 priority |-> e.priority, status |-> e.status]
      upd    == [tasks EXCEPT ![i] = ApplyFields(@, fields, now)]
  IN  /\ Called
      /\ i # 0
      /\ remote' = IF supabase THEN UpdateTaskStatus(remote, out, tid, upd[i].status)
                   ELSE remote
      /\ file' = SaveJson(file, upd, saveOk)
      /\ tasks' = [upd EXCEPT ![i].priority_level = e.priority]
      /\ last' = [NoCall EXCEPT !.op = "save_changes", !.tid = tid,
                                !.ret = "task", !.raw = e.priority,
                                !.saveFailed = ~saveOk]
      /\ UNCHANGED <<nextId, supabase, stamps>>

SaveChanges(O, W) ==
  \E tid \in TaskIds, e \in DialogEntries, saveOk \in W :
    \E out \in RemoteCall(supabase, O) :
      SaveChangesCall(tid, e, out, saveOk)

\* ------------------------------------------------------------------------
\* snooze_task
\* ------------------------------------------------------------------------
\* Variant of lines 281-284 that moves the due date back.
SnoozedBackwards(t, days, now) ==
  [t EXCEPT !.due_date = @ - days, !.updated_at = now]

\* Lines 281-284: the due date moved forward by days, updated_at refreshed.
Snoozed(t, days, now) ==
  [t EXCEPT !.due_date = @ + days, !.updated_at = now]

SnoozeTask(W) ==
  \E tid \in TaskIds, days \in SnoozeDays, saveOk \in W :
    LET i == FindTask(tasks, tid)
    IN  /\ Called
        /\ IF i = 0 \/ tasks[i].due_date = NoDue \/ tasks[i].due_date = BadDue
           THEN /\ last' = [NoCall EXCEPT !.op = "snooze_task", !.tid = tid,
                                          !.days = days]
                /\ UNCHANGED <<tasks, file>>
           ELSE /\ tasks[i].due_date + days <= MaxDue
                /\ tasks' = [tasks EXCEPT ![i] = Snoozed(@, days, clock)]
                /\ file' = SaveJson(file, tasks', saveOk)
                /\ last' = [NoCall EXCEPT !.op = "snooze_task", !.tid = tid,
                                          !.days = days,
                                          !.ret = "task", !.saveFailed = ~saveOk]
        /\ UNCHANGED <<remote, nextId, supabase, stamps>>

\* ------------------------------------------------------------------------
\* sync_with_remote
\* ------------------------------------------------------------------------
\* The number of tasks the push loop passes to add_task_to_db when no call
\* raises.
PushCount(ts, rem, prefer, sel, st, now) ==
  IF sel = "raise" THEN 0
  ELSE Len(SyncBody(ts, rem, 0, prefer, sel, [c \in 1..(Len(ts) + Len(rem)) |-> "fail"],
                    st, now).calls)

SyncWithRemote(O, W) ==
  \E prefer \in BOOLEAN, sel \in RemoteCall(supabase, O), saveOk \in W :
    IF ~supabase
    THEN /\ Called
         /\ last' = [NoCall EXCEPT !.op = "sync", !.prefer = prefer,
                                   !.ret = "summary", !.sel = "none"]
         /\ UNCHANGED <<tasks, file, remote, nextId, supabase, stamps>>
    ELSE \E outs \in [1..PushCount(tasks, remote, prefer, sel, stamps, clock) -> O] :
         LET res == SyncBody(tasks, remote, nextId, prefer, sel, outs, stamps, clock)
         IN  /\ Called
             /\ Len(res.tasks) <= MaxTasks
             /\ res.nextId <= MaxId + 1
             /\ tasks' = res.tasks
             /\ remote' = res.remote
             /\ nextId' = res.nextId
             /\ file' = IF res.raised THEN file ELSE SaveJson(file, tasks', saveOk)
             /\ last' = [NoCall EXCEPT !.op = "sync", !.prefer = prefer,
                                       !.ret = "summary", !.sel = sel,
                                       !.pushed = res.pushed,
                                       !.pulled = res.pulled,
                                       !.updated = res.updated,
                                       !.calls = res.calls,
                                       !.caught = res.raised,
                                       !.raised = FALSE,
                                       !.saveFailed = ~res.raised /\ ~saveOk]
             /\ UNCHANGED <<supabase, stamps>>

\* ------------------------------------------------------------------------
\* compute_urgency_score, get_sorted_by_urgency
\*
\* Scores are kept in thousandths. The floats of the code are followed
\* exactly: the score before rounding is weight * (60 - days_until) / 30, a
\* multiple of 1/30, which is never within 1/6000 of a rounding boundary of
\* round(score, 3), while the error of the float operations is below 1e-14.
\* ------------------------------------------------------------------------
\* Variant of the weight lookup that always falls back to the default.
PriorityWeightDefault(p) == 2

\* PRIORITY_WEIGHT.get(priority_level, 2)
PriorityWeight(p) ==
  IF p = Low THEN 1 ELSE IF p = Normal THEN 2 ELSE IF p = High THEN 3 ELSE 2

\* Variant of deadline_factor without the max(0.0, ...).
DeadlineFactorNoFloor(days_until) ==
  IF days_until <= 0 THEN 30 ELSE 30 - days_until

\* Lines 308-313: deadline_factor, in thirtieths.
DeadlineFactor(days_until) ==
  IF days_until <= 0 THEN 30
  ELSE IF 30 - days_until > 0 THEN 30 - days_until ELSE 0

\* round(x, 3) of x = n / 30, in thousandths: the integer nearest to
\* 100 * n / 3.
Round3(n) == (200 * n + 3) \div 6

\* Variant of the score that leaves out the "1.0 +".
ComputeUrgencyScoreFactorOnly(t, today) ==
  LET weight == PriorityWeight(t.priority_level)
  IN  IF t.due_date = NoDue THEN 1000 * weight
      ELSE IF t.due_date = BadDue THEN 1000 * weight
      ELSE Round3(weight * DeadlineFactor(t.due_date - today))

\* compute_urgency_score(task, now_date)
ComputeUrgencyScore(t, today) ==
  LET weight == PriorityWeight(t.priority_level)
  IN  IF t.due_date = NoDue THEN 1000 * weight
      ELSE IF t.due_date = BadDue THEN 1000 * weight
      ELSE Round3(weight * (30 + DeadlineFactor(t.due_date - today)))

\* Variant of the sort without reverse=True.
InsertByKeyAscending(placed, i, key) ==
  LET ahead == Cardinality({k \in 1..Len(placed) : key[placed[k]] <= key[i]})
  IN  SubSeq(placed, 1, ahead) \o <<i>> \o SubSeq(placed, ahead + 1, Len(placed))

\* sorted(..., reverse=True) is stable: the index i goes behind every index
\* already placed whose key is not smaller.
InsertByKey(placed, i, key) ==
  LET ahead == Cardinality({k \in 1..Len(placed) : key[placed[k]] >= key[i]})
  IN  SubSeq(placed, 1, ahead) \o <<i>> \o SubSeq(placed, ahead + 1, Len(placed))

RECURSIVE SortFrom(_, _, _)
SortFrom(placed, i, key) ==
  IF i > Len(key) THEN placed
  ELSE SortFrom(InsertByKey(placed, i, key), i + 1, key)

\* get_sorted_by_urgency, as the indices of the tasks in the order returned.
SortedByUrgency(ts, today) ==
  SortFrom(<<>>, 1, [i \in 1..Len(ts) |-> ComputeUrgencyScore(ts[i], today)])

\* The days date.today() may return, and the due dates of the tasks scored.
Todays == 0..MaxDay
UrgencyDues == {NoDue, BadDue, 1, MaxDay - 1}

\* The queries leave the manager as it is: one query on each loaded
\* collection covers every query that can be made on it.
FirstCall == last.op = "init"

\* compute_urgency_score(self.tasks[i], today) is called.
CallComputeUrgencyScore ==
  \E i \in 1..Len(tasks), today \in Todays :
    /\ FirstCall
    /\ last' = [NoCall EXCEPT !.op = "compute_urgency_score", !.tid = i,
                              !.today = today, !.ret = "score",
                              !.score = ComputeUrgencyScore(tasks[i], today)]
    /\ UNCHANGED <<tasks, file, remote, nextId, supabase, stamps, clock>>

\* get_sorted_by_urgency() is called on the day today.
GetSortedByUrgency ==
  \E today \in Todays :
    /\ FirstCall
    /\ last' = [NoCall EXCEPT !.op = "get_sorted_by_urgency", !.today = today,
                              !.ret = "list",
                              !.scores = [i \in 1..Len(tasks) |->
                                            ComputeUrgencyScore(tasks[i], today)],
                              !.sorted = SortedByUrgency(tasks, today)]
    /\ UNCHANGED <<tasks, file, remote, nextId, supabase, stamps, clock>>

\* A manager without remote store, built from a Local Store file of up to
\* MaxSorted rows.
InitUrgency ==
  \E n \in 0..MaxSorted :
    \E prio \in [1..n -> {Low, Normal, High}], due \in [1..n -> UrgencyDues] :
      /\ tasks = [i \in 1..n |-> PriorityTask(i, Ta, due[i], Pending, prio[i], 1, 1)]
      /\ file = ToListOfDicts(tasks)
      /\ remote = <<>>
      /\ nextId = 1
      /\ supabase = FALSE
      /\ stamps = FALSE
      /\ clock = 1
      /\ last = NoCall

\* ------------------------------------------------------------------------
\* _normalize_priority on its own
\* ------------------------------------------------------------------------
\* Characters of the arguments: letters of "low" in both cases, white space
\* and a character that is neither.
RawAlphabet == {"l", "O", "w", " ", "-"}

\* A level name with the letters at the positions U in upper case and the
\* others in lower case.
Recased(lvl, U) ==
  [i \in 1..Len(lvl) |-> IF i \in U THEN ToUpper(lvl[i]) ELSE ToLower(lvl[i])]

RawPads == {<<>>, <<" ">>, <<"\t", "\n">>}

\* The arguments: None or "" (<<>>), every string of up to MaxRaw characters
\* of the alphabet, and every level name in every mix of cases with white
\* space around it.
RawArguments ==
  UNION {[1..n -> RawAlphabet] : n \in 0..MaxRaw}
  \cup {a \o Recased(PRIORITY_LEVELS[k], U) \o b :
          <<a, b, k, U>> \in {<<a, b, k, U>> \in
              RawPads \X RawPads \X (1..3) \X SUBSET (1..6) :
                  U \subseteq 1..Len(PRIORITY_LEVELS[k])}}

\* _normalize_priority(p) is called with the argument drawn at the start.
CallNormalizePriority ==
  /\ last.op = "init"
  /\ last' = [last EXCEPT !.op = "normalize_priority",
                          !.level = NormalizePriority(last.raw)]
  /\ UNCHANGED <<tasks, file, remote, nextId, supabase, stamps, clock>>

\* _normalize_priority is called with the value it returned.
CallNormalizePriorityAgain ==
  /\ last.op = "normalize_priority"
  /\ last' = [last EXCEPT !.op = "normalize_again",
                          !.raw = last.level,
                          !.level = NormalizePriority(last.level)]
  /\ UNCHANGED <<tasks, file, remote, nextId, supabase, stamps, clock>>

InitNormalize ==
  \E p \in RawArguments :
    /\ tasks = <<>>
    /\ file = <<>>
    /\ remote = <<>>
    /\ nextId = 1
    /\ supabase = FALSE
    /\ stamps = FALSE
    /\ clock = 1
    /\ last = [NoCall EXCEPT !.raw = p]

\* ------------------------------------------------------------------------
\* get_overdue_tasks
\* ------------------------------------------------------------------------
\* Variant of the test of line 249 that counts a task due today as overdue.
IsOverdueOrDueToday(t, today) ==
  /\ ~(t.status = Completed \/ t.due_date = NoDue)
  /\ t.due_date # BadDue
  /\ t.due_date <= today

\* Lines 245-250: the task is appended to the result.
IsOverdue(t, today) ==
  /\ ~(t.status = Completed \/ t.due_date = NoDue)
  /\ t.due_date # BadDue
  /\ t.due_date < today

\* get_overdue_tasks on the day today, as the indices of the tasks returned.
OverdueTasks(ts, today) ==
  SelectSeq([i \in 1..Len(ts) |-> i], LAMBDA i : IsOverdue(ts[i], today))

\* The days date.today() may return, and the due dates of the tasks, for
\* get_overdue_tasks.
OverdueTodays == {1, 2, 3, MaxDay}
OverdueDues == {NoDue, BadDue, 2, MaxDay - 1}

\* get_overdue_tasks() is called on the day today; no call follows it.
GetOverdueTasks ==
  \E today \in OverdueTodays :
    /\ last.op \in {"init", "complete_task"}
    /\ last' = [NoCall EXCEPT !.op = "get_overdue_tasks", !.today = today,
                              !.ret = "list",
                              !.overdue = OverdueTasks(tasks, today)]
    /\ UNCHANGED <<tasks, file, remote, nextId, supabase, stamps, clock>>

\* A manager without remote store, built from a Local Store file of up to
\* MaxSorted rows of pending tasks.
InitOverdue ==
  \E n \in 0..MaxSorted :
    \E due \in [1..n -> OverdueDues] :
      /\ tasks = [i \in 1..n |-> PriorityTask(i, Ta, due[i], Pending, Normal, 1, 1)]
      /\ file = ToListOfDicts(tasks)
      /\ remote = <<>>
      /\ nextId = 1
      /\ supabase = FALSE
      /\ stamps = FALSE
      /\ clock = 1
      /\ last = NoCall

\* ------------------------------------------------------------------------
\* Serialization round trip, save_json and a new manager
\* ------------------------------------------------------------------------
\* PriorityTask.from_dict(t.to_dict()) for a task t of the collection.
CallFromDictToDict ==
  \E i \in 1..Len(tasks) :
    /\ last.op = "init"
    /\ last' = [NoCall EXCEPT !.op = "from_dict", !.tid = i,
                              !.parsed = FromDict(ToDict(tasks[i]))]
    /\ UNCHANGED <<tasks, file, remote, nextId, supabase, stamps, clock>>

\* save_json()
CallSaveJson(W) ==
  \E saveOk \in W :
    /\ last.op = "init"
    /\ file' = SaveJson(file, tasks, saveOk)
    /\ last' = [NoCall EXCEPT !.op = "save_json", !.saveFailed = ~saveOk]
    /\ UNCHANGED <<tasks, remote, nextId, supabase, stamps, clock>>

\* The process ends and a new TaskManager is constructed over the same
\* Local Store file and remote store: __init__ runs load().
Restart(O) ==
  \E out \in RemoteCall(supabase, O) :
    /\ Called
    /\ last.op # "load"
    /\ tasks' = Load(supabase, remote, file, out)
    /\ last' = [NoCall EXCEPT !.op = "load", !.sel = out, !.before = tasks]
    /\ UNCHANGED <<file, remote, nextId, supabase, stamps>>

RoundTripDues == {NoDue, MaxDue}

\* A manager without remote store holding up to MaxSorted valid tasks
\* (canonical priority, due date absent or a valid date); the Local Store
\* file holds something else.
InitRoundTrip ==
  \E n \in 0..MaxSorted :
    \E id \in [1..n -> 1..2], prio \in [1..n -> {Low, Normal, High}],
       due \in [1..n -> RoundTripDues] :
      /\ tasks = [i \in 1..n |->
                    PriorityTask(id[i], Ta, due[i],
                                 IF i % 2 = 1 THEN Pending ELSE Completed,
                                 prio[i], 1, i)]
      /\ file = <<Row(1, Tb, NoDue, Normal, Pending, 1, 1)>>
      /\ remote = <<>>
      /\ nextId = 1
      /\ supabase = FALSE
      /\ stamps = FALSE
      /\ clock = 1
      /\ last = NoCall

\* ------------------------------------------------------------------------
\* save_json, statement by statement
\*
\* While last.writing holds the file is open for writing: the text on disk is
\* cut short, and file lists the rows that are wholly on disk so far.
\* ------------------------------------------------------------------------
\* Line 141: open(self.json_file, "w") truncates the file.
SaveOpen ==
  /\ Called
  /\ file' = <<>>
  /\ last' = [NoCall EXCEPT !.op = "save_json", !.writing = TRUE, !.prev = file]
  /\ UNCHANGED <<tasks, remote, nextId, supabase, stamps>>

\* Line 142: json.dump writes the text piece by piece; the row of one more
\* task reaches the disk.
SaveWrite ==
  /\ last.writing
  /\ Len(file) < Len(tasks)
  /\ file' = Append(file, ToDict(tasks[Len(file) + 1]))
  /\ UNCHANGED <<tasks, remote, nextId, supabase, stamps, clock, last>>

\* Line 141, end of the with block: the rest of the text is flushed and the
\* file is closed.
SaveClose ==
  /\ last.writing
  /\ file' = ToListOfDicts(tasks)
  /\ last' = [last EXCEPT !.writing = FALSE]
  /\ UNCHANGED <<tasks, remote, nextId, supabase, stamps, clock>>

\* ------------------------------------------------------------------------
\* Specifications
\* ------------------------------------------------------------------------
\* The manager with the DatabaseManager of the repository.
Next ==
  \/ AddTask(StockOutcomes, WritesSucceed)
  \/ UpdateTask(StockOutcomes, WritesSucceed)
  \/ CompleteTask(StockOutcomes, WritesSucceed)
  \/ SetPriority(StockOutcomes, WritesSucceed)
  \/ DeleteTask(StockOutcomes, WritesSucceed)
  \/ SnoozeTask(WritesSucceed)
  \/ SyncWithRemote(StockOutcomes, WritesSucceed)

Spec == Init /\ [][Next]_vars

\* The manager with the DatabaseManager of the repository and a Local Store
\* file whose writes may fail.
NextWrites ==
  \/ AddTask(StockOutcomes, WritesMayFail)
  \/ UpdateTask(StockOutcomes, WritesMayFail)
  \/ CompleteTask(StockOutcomes, WritesMayFail)
  \/ SetPriority(StockOutcomes, WritesMayFail)
  \/ DeleteTask(StockOutcomes, WritesMayFail)
  \/ SnoozeTask(WritesMayFail)
  \/ SyncWithRemote(StockOutcomes, WritesMayFail)

SpecWrites == Init /\ [][NextWrites]_vars

\* The manager with an injected adapter whose calls raise when they fail and
\* a Local Store file whose writes may fail.
NextFaulty ==
  \/ AddTask(InjectedOutcomes, WritesMayFail)
  \/ UpdateTask(InjectedOutcomes, WritesMayFail)
  \/ CompleteTask(InjectedOutcomes, WritesMayFail)
  \/ SetPriority(InjectedOutcomes, WritesMayFail)
  \/ DeleteTask(InjectedOutcomes, WritesMayFail)
  \/ SnoozeTask(WritesMayFail)
  \/ SyncWithRemote(InjectedOutcomes, WritesMayFail)

SpecFaulty == InitInjected /\ [][NextFaulty]_vars

\* The manager with the DatabaseManager of the repository, and save_json
\* called on its own and observed statement by statement.
NextSave ==
  \/ AddTask(StockOutcomes, WritesSucceed)
  \/ UpdateTask(StockOutcomes, WritesSucceed)
  \/ CompleteTask(StockOutcomes, WritesSucceed)
  \/ SetPriority(StockOutcomes, WritesSucceed)
  \/ DeleteTask(StockOutcomes, WritesSucceed)
  \/ SnoozeTask(WritesSucceed)
  \/ SyncWithRemote(StockOutcomes, WritesSucceed)
  \/ SaveOpen
  \/ SaveWrite
  \/ SaveClose

SpecSave == Init /\ [][NextSave]_vars

\* The urgency queries on a loaded collection.
NextUrgency ==
  \/ CallComputeUrgencyScore
  \/ GetSortedByUrgency

SpecUrgency == InitUrgency /\ [][NextUrgency]_vars

\* complete_task and the overdue query on a loaded collection.
NextOverdue ==
  \/ CompleteTask(StockOutcomes, WritesSucceed)
  \/ GetOverdueTasks

SpecOverdue == InitOverdue /\ [][NextOverdue]_vars

\* A task serialized and parsed; the collection saved and loaded by a new
\* manager.
NextRoundTrip ==
  \/ CallFromDictToDict
  \/ CallSaveJson(WritesSucceed)
  \/ Restart(StockOutcomes)

SpecRoundTrip == InitRoundTrip /\ [][NextRoundTrip]_vars

\* The manager across restarts of the process.
NextRestart ==
  \/ AddTask(StockOutcomes, WritesSucceed)
  \/ CompleteTask(StockOutcomes, WritesSucceed)
  \/ Restart(StockOutcomes)

SpecRestart == Init /\ [][NextRestart]_vars

\* The manager driven by the GUI's add and edit dialogs.
NextDialog ==
  \/ AddTask(StockOutcomes, WritesSucceed)
  \/ SaveChanges(StockOutcomes, WritesSucceed)

SpecDialog == Init /\ [][NextDialog]_vars

\* _normalize_priority applied to an argument and to its own result.
NextNormalize ==
  \/ CallNormalizePriority
  \/ CallNormalizePriorityAgain

SpecNormalize == InitNormalize /\ [][NextNormalize]_vars

\* The manager with an injected adapter whose calls raise when they fail.
NextInjected ==
  \/ AddTask(InjectedOutcomes, WritesSucceed)
  \/ UpdateTask(InjectedOutcomes, WritesSucceed)
  \/ CompleteTask(InjectedOutcomes, WritesSucceed)
  \/ SetPriority(InjectedOutcomes, WritesSucceed)
  \/ DeleteTask(InjectedOutcomes, WritesSucceed)
  \/ SnoozeTask(WritesSucceed)
  \/ SyncWithRemote(InjectedOutcomes, WritesSucceed)

SpecInjected == InitInjected /\ [][NextInjected]_vars

\* ------------------------------------------------------------------------
\* Properties
\* ------------------------------------------------------------------------
\* The step is a call of sync_with_remote with the remote store active.
SyncStep == last'.op = "sync" /\ supabase

\* The snapshot that call fetched, and its ids.
Snapshot == IF last'.sel = "ok" THEN remote ELSE <<>>
SnapshotIds == {Snapshot[k].id : k \in 1..Len(Snapshot)} \ {NoneId}

\* The fields of a task other than its id.
SameButId(t, u) == [t EXCEPT !.task_id = NoneId] = [u EXCEPT !.task_id = NoneId]

\* C1: no two tasks of the in-memory collection have the same non-None
\* task_id, in every reachable state.
C1_UniqueTaskIds ==
  \A i \in 1..Len(tasks), j \in 1..Len(tasks) :
    (i # j /\ tasks[i].task_id # NoneId) => tasks[i].task_id # tasks[j].task_id

\* C2: sync_with_remote(prefer_local=True) with an empty remote snapshot keeps
\* every task of the collection, passes each of them to the remote insert
\* exactly once, and returns pushed = number of tasks before the call,
\* pulled = 0 and updated = 0.
C2_EmptySnapshotPushesAll ==
  [][(SyncStep /\ last'.prefer /\ Snapshot = <<>>) =>
       /\ Len(tasks') = Len(tasks)
       /\ \A i \in 1..Len(tasks) : SameButId(tasks'[i], tasks[i])
       /\ last'.calls = [i \in 1..Len(tasks) |-> i]
       /\ last'.pushed = Len(tasks)
       /\ last'.pulled = 0
       /\ last'.updated = 0]_vars

C2_Witness ==
  /\ last.op = "sync" /\ supabase /\ last.prefer
  /\ Len(tasks) = 2
  /\ last.pushed = 2 /\ last.pulled = 0
  /\ last.calls = <<1, 2>>

\* C3: sync_with_remote(prefer_local=True) leaves every local task whose
\* task_id appears in the remote snapshot unchanged in all its fields, however
\* the remote row differs, and returns updated = 0.
C3_PreferLocalKeepsLocal ==
  [][(SyncStep /\ last'.prefer) =>
       /\ \A i \in 1..Len(tasks) :
            tasks[i].task_id \in SnapshotIds => tasks'[i] = tasks[i]
       /\ last'.updated = 0]_vars

C3_Witness ==
  /\ last.op = "sync" /\ supabase /\ last.prefer /\ last.sel = "ok"
  /\ last.calls = <<>> /\ last.pulled = 0
  /\ \E i \in 1..Len(tasks), k \in 1..Len(remote) :
       /\ tasks[i].task_id = remote[k].id
       /\ tasks[i].title # remote[k].title
       /\ tasks[i].status # remote[k].status

\* A local task and a row of the snapshot with the same id whose compared
\* fields differ.
Differ(t, r) == t.task_id = r.id /\ r.id # NoneId /\ LocalSimple(t) # RemoteSimple(r)

\* C4: sync_with_remote(prefer_local=False) gives every local task whose id is
\* in the snapshot and whose compared fields differ from the row the title,
\* due_date, status and normalized priority of the row; updated is the number
\* of such ids; tasks whose fields equal the row's are not changed.
C4_PreferRemoteOverwrites ==
  [][(SyncStep /\ ~last'.prefer) =>
       /\ \A i \in 1..Len(tasks), k \in 1..Len(Snapshot) :
            /\ Differ(tasks[i], Snapshot[k]) =>
                 /\ tasks'[i].title = Snapshot[k].title
                 /\ tasks'[i].due_date = Snapshot[k].due_date
                 /\ tasks'[i].status = Snapshot[k].status
                 /\ tasks'[i].priority_level = NormalizePriority(Snapshot[k].priority)
            /\ (tasks[i].task_id = Snapshot[k].id /\ ~Differ(tasks[i], Snapshot[k])) =>
                 tasks'[i] = tasks[i]
       /\ last'.updated =
            Cardinality({id \in SnapshotIds :
               \E i \in 1..Len(tasks), k \in 1..Len(Snapshot) :
                  Snapshot[k].id = id /\ Differ(tasks[i], Snapshot[k])})]_vars

\* The same statement for the calls made when C1 holds of the collection.
C4_WhenIdsUnique ==
  [][(SyncStep /\ ~last'.prefer /\ C1_UniqueTaskIds) =>
       /\ \A i \in 1..Len(tasks), k \in 1..Len(Snapshot) :
            /\ Differ(tasks[i], Snapshot[k]) =>
                 /\ tasks'[i].title = Snapshot[k].title
                 /\ tasks'[i].due_date = Snapshot[k].due_date
                 /\ tasks'[i].status = Snapshot[k].status
                 /\ tasks'[i].priority_level = NormalizePriority(Snapshot[k].priority)
            /\ (tasks[i].task_id = Snapshot[k].id /\ ~Differ(tasks[i], Snapshot[k])) =>
                 tasks'[i] = tasks[i]
       /\ last'.updated =
            Cardinality({id \in SnapshotIds :
               \E i \in 1..Len(tasks), k \in 1..Len(Snapshot) :
                  Snapshot[k].id = id /\ Differ(tasks[i], Snapshot[k])})]_vars

\* The task at index i was overwritten from the row r by the step.
Overwritten(i, r) ==
  /\ tasks[i].task_id = r.id
  /\ LocalSimple(tasks'[i]) # LocalSimple(tasks[i])

\* C5: a task overwritten by sync_with_remote(prefer_local=False) from a row
\* without created_at keeps its created_at, from a row without updated_at gets
\* the current time as updated_at, and neither timestamp becomes None when it
\* was present.
C5_OverwriteKeepsTimestamps ==
  [][(SyncStep /\ ~last'.prefer) =>
       \A i \in 1..Len(tasks), k \in 1..Len(Snapshot) :
         Overwritten(i, Snapshot[k]) =>
           /\ Snapshot[k].created_at = NoneTs =>
                tasks'[i].created_at = tasks[i].created_at
           /\ Snapshot[k].updated_at = NoneTs =>
                tasks'[i].updated_at = clock
           /\ tasks[i].created_at # NoneTs => tasks'[i].created_at # NoneTs
           /\ tasks[i].updated_at # NoneTs => tasks'[i].updated_at # NoneTs]_vars

\* C6: in one sync_with_remote call pulled is the number of snapshot ids that
\* were not in the collection, each such row is appended exactly once; pushed
\* is the number of tasks of the collection before the call that had no id or
\* an id absent from the snapshot; the tasks passed to the insert are exactly
\* those, so no pulled task is pushed.
C6_PulledPushedDisjoint ==
  [][SyncStep =>
       LET localIds == {tasks[i].task_id : i \in 1..Len(tasks)} \ {NoneId}
           toPull   == SnapshotIds \ localIds
           toPush   == {i \in 1..Len(tasks) :
                          tasks[i].task_id = NoneId \/ tasks[i].task_id \notin SnapshotIds}
       IN  /\ last'.pulled = Cardinality(toPull)
           /\ Len(tasks') = Len(tasks) + last'.pulled
           /\ \A k \in 1..Len(Snapshot) :
                Snapshot[k].id \in toPull =>
                  Cardinality({j \in (Len(tasks) + 1)..Len(tasks') :
                                 tasks'[j] = FromDict(Snapshot[k])}) = 1
           /\ last'.pushed = Cardinality(toPush)
           /\ Len(last'.calls) = last'.pushed
           /\ {last'.calls[c] : c \in 1..Len(last'.calls)} = toPush]_vars

C6_Witness ==
  /\ last.op = "sync" /\ supabase
  /\ last.pulled = 1 /\ last.pushed = 1
  /\ Len(tasks) = 2

\* C7: sync_with_remote never raises to the caller; when an adapter call
\* raises, the summary returned counts the steps completed before it and the
\* collection holds the changes of those steps only.
C7_SyncReturnsPartialSummary ==
  [][SyncStep =>
       LET localIds == {tasks[i].task_id : i \in 1..Len(tasks)} \ {NoneId}
           n        == Len(last'.calls)
       IN  /\ ~last'.raised
           /\ last'.ret = "summary"
           /\ last'.sel = "raise" =>
                /\ last'.caught
                /\ tasks' = tasks /\ remote' = remote
                /\ last'.pushed = 0 /\ last'.pulled = 0 /\ last'.updated = 0
                /\ last'.calls = <<>>
           /\ (last'.caught /\ last'.sel # "raise") =>
                /\ n >= 1
                /\ last'.pushed = n - 1
                /\ last'.pulled = Cardinality(SnapshotIds \ localIds)
                /\ Len(tasks') = Len(tasks) + last'.pulled
                /\ \A j \in 1..Len(tasks) :
                     /\ j >= last'.calls[n] => tasks'[j].task_id = tasks[j].task_id
                     /\ tasks'[j].task_id # tasks[j].task_id =>
                          \E k \in (Len(remote) + 1)..Len(remote') :
                             remote'[k].id = tasks'[j].task_id
                /\ Len(remote') - Len(remote) <= last'.pushed
                /\ SubSeq(remote', 1, Len(remote)) = remote]_vars

C7_Witness ==
  /\ last.op = "sync" /\ supabase
  /\ last.caught /\ last.sel = "ok"
  /\ last.pushed = 1 /\ last.calls = <<1, 2>>
  /\ ~last.raised

\* The last call was a mutating operation that found its target and
\* returned, and no write of the file failed.
MutationReturned ==
  /\ ~last.raised
  /\ ~last.saveFailed
  /\ \/ last.op \in {"add_task", "update_task", "complete_task",
                     "set_priority", "snooze_task"} /\ last.ret = "task"
     \/ last.op = "delete_task" /\ last.ret = "true"
     \/ last.op = "sync" /\ supabase

\* C8: whenever a mutating operation has returned and the writes of the file
\* succeed, the Local Store file holds the serialization of the in-memory
\* collection, in the same order, also when a remote call failed or raised.
C8_FileMirrorsMemory ==
  MutationReturned => file = ToListOfDicts(tasks)

\* C9: add_task with a title that is empty after trimming fails and leaves the
\* in-memory collection, the Local Store and the remote store unchanged.
C9_BlankTitleRejected ==
  [][(last'.op = "add_task" /\ StrStrip(last'.title) = <<>>) =>
       /\ last'.ret \in {"none", "raise"}
       /\ UNCHANGED <<tasks, file, remote>>]_vars

C11_PriorityCanonical ==
  \A i \in 1..Len(tasks) : tasks[i].priority_level \in {Low, Normal, High}

\* A task added with a priority string that names no level sits next to one
\* whose priority set_priority changed from a raw string.
C11_Witness ==
  /\ last.op = "set_priority" /\ last.ret = "task"
  /\ Len(tasks) = 2
  /\ tasks[1].priority_level = Low /\ tasks[1].title = Ta
  /\ tasks[2].priority_level = Normal /\ tasks[2].title = Blank

\* The step is a call of op with a task_id that no task of the collection has.
NotFoundCall(ops) ==
  /\ last'.op \in ops
  /\ \A i \in 1..Len(tasks) : tasks[i].task_id # last'.tid

\* C12: update_task, complete_task, set_priority and snooze_task called with a
\* task_id that is not in the collection return None and delete_task returns
\* False; the collection, the Local Store and the remote store are unchanged
\* and nothing is raised.
C12_NotFoundIsNoOp ==
  [][/\ NotFoundCall({"update_task", "complete_task", "set_priority",
                      "snooze_task"}) =>
          /\ last'.ret = "none" /\ ~last'.raised
          /\ UNCHANGED <<tasks, file, remote>>
     /\ NotFoundCall({"delete_task"}) =>
          /\ last'.ret = "false" /\ ~last'.raised
          /\ UNCHANGED <<tasks, file, remote>>]_vars

C12_Witness ==
  /\ last.op = "complete_task" /\ last.tid = AbsentId /\ last.ret = "none"
  /\ supabase /\ Len(tasks) = 2 /\ remote # <<>>

\* The step is a call of delete_task with the id of a task of the collection.
DeletePresent == last'.op = "delete_task" /\ FindTask(tasks, last'.tid) # 0

\* The sequence ts without its i-th element.
RemoveAt(ts, i) ==
  [j \in 1..(Len(ts) - 1) |-> IF j < i THEN ts[j] ELSE ts[j + 1]]

\* C13: delete_task of a present id returns True and removes exactly that one
\* task: the collection shrinks by one element and every other task stays,
\* unchanged and in the same order, also when the remote delete fails or
\* raises.
C13_DeleteRemovesOne ==
  [][DeletePresent =>
       /\ last'.ret = "true" /\ ~last'.raised
       /\ Len(tasks') = Len(tasks) - 1
       /\ tasks' = RemoveAt(tasks, FindTask(tasks, last'.tid))]_vars

\* The same statement for the calls made when C1 holds of the collection.
C13_WhenIdsUnique ==
  [][(DeletePresent /\ C1_UniqueTaskIds) =>
       /\ last'.ret = "true" /\ ~last'.raised
       /\ Len(tasks') = Len(tasks) - 1
       /\ tasks' = RemoveAt(tasks, FindTask(tasks, last'.tid))]_vars

\* The step is a call of update_task, made directly or through complete_task
\* or set_priority, with the id of a task of the collection.
UpdatePresent ==
  /\ last'.op \in {"update_task", "complete_task", "set_priority"}
  /\ FindTask(tasks, last'.tid) # 0

\* That call is update_task(last'.tid, **fields).
UpdateStep(fields) ==
  \E out \in StockOutcomes \cup InjectedOutcomes :
    UpdateTaskCall(last'.op, last'.tid, fields, out, ~last'.saveFailed)

\* The keyword arguments the calls of the model pass to update_task.
SuppliedFields ==
  UpdateFields \cup {[status |-> Completed]}
               \cup {[priority_level |-> p] : p \in RawPriorities}

\* C14: update_task on a present task_id gives that task the supplied values
\* of title, due_date, status and priority_level (normalized) and a new
\* updated_at, ignores keyword arguments of any other name, and leaves the
\* unsupplied fields, task_id and created_at of the task and every other task
\* unchanged.
C14_UpdateChangesOnlySupplied ==
  [][\A fields \in SuppliedFields :
       (UpdatePresent /\ UpdateStep(fields)) =>
         LET i      == FindTask(tasks, last'.tid)
             t      == tasks[i]
             u      == tasks'[i]
             has(k) == k \in DOMAIN fields
         IN  /\ last'.ret = "task" /\ ~last'.raised
             /\ Len(tasks') = Len(tasks)
             /\ u.title = IF has("title") THEN fields["title"] ELSE t.title
             /\ u.due_date = IF has("due_date") THEN fields["due_date"] ELSE t.due_date
             /\ u.status = IF has("status") THEN fields["status"] ELSE t.status
             /\ u.priority_level = IF has("priority_level")
                                   THEN NormalizePriority(fields["priority_level"])
                                   ELSE t.priority_level
             /\ u.updated_at = clock
             /\ u.task_id = t.task_id
             /\ u.created_at = t.created_at
             /\ \A j \in 1..Len(tasks) : j # i => tasks'[j] = tasks[j]]_vars

\* update_task(title, priority_level, notes) has just changed the second,
\* completed task of a collection of two.
C14_Witness ==
  /\ last.op = "update_task" /\ last.ret = "task"
  /\ Len(tasks) = 2
  /\ tasks[2].title = Tb /\ tasks[2].priority_level = High
  /\ tasks[2].status = Completed
  /\ tasks[2].updated_at = clock - 1 /\ tasks[2].created_at < clock - 1
  /\ tasks[1].updated_at < clock - 1

\* C15: add_task, update_task and delete_task complete their in-memory
\* mutation and return their normal result without raising when the remote
\* call fails or raises and when the write of the Local Store fails; a failed
\* write does not undo the mutation.
C15_FailuresAreNotFatal ==
  [][/\ last'.op = "add_task" =>
          /\ ~last'.raised /\ last'.ret = "task"
          /\ Len(tasks') = Len(tasks) + 1
          /\ SubSeq(tasks', 1, Len(tasks)) = tasks
     /\ (last'.op = "update_task" /\ FindTask(tasks, last'.tid) # 0) =>
          /\ ~last'.raised /\ last'.ret = "task"
          /\ tasks'[FindTask(tasks, last'.tid)].updated_at = clock
     /\ DeletePresent =>
          /\ ~last'.raised /\ last'.ret = "true"
          /\ Len(tasks') < Len(tasks)
          /\ \A i \in 1..Len(tasks') : tasks'[i].task_id # last'.tid]_vars

\* The same statement for the calls in which no remote call raises.
C15_WhenNoCallRaises ==
  [][~last'.raised =>
     /\ last'.op = "add_task" =>
          /\ last'.ret = "task"
          /\ Len(tasks') = Len(tasks) + 1
          /\ SubSeq(tasks', 1, Len(tasks)) = tasks
     /\ (last'.op = "update_task" /\ FindTask(tasks, last'.tid) # 0) =>
          /\ last'.ret = "task"
          /\ tasks'[FindTask(tasks, last'.tid)].updated_at = clock
     /\ DeletePresent =>
          /\ last'.ret = "true"
          /\ Len(tasks') < Len(tasks)
          /\ \A i \in 1..Len(tasks') : tasks'[i].task_id # last'.tid]_vars

\* What a reader of the Local Store file finds on disk: the rows, and
\* whether the text is whole.
OnDisk == [rows |-> file, whole |-> ~last.writing]
WholeFile(rows) == [rows |-> rows, whole |-> TRUE]

\* C16: at every step of save_json the file on disk holds either the whole
\* previous collection or the whole new collection, so that a reader running
\* meanwhile never finds a partially written file.
C16_SaveNeverTorn ==
  last.op = "save_json" =>
    \/ OnDisk = WholeFile(last.prev)
    \/ OnDisk = WholeFile(ToListOfDicts(tasks))

\* The weight the specification gives a priority level: 1, 2, 3 for Low,
\* Normal, High.
LevelWeight(p) == CHOOSE w \in 1..3 : PRIORITY_LEVELS[w] = p

\* The due date is present and is a date.
HasDueDay(t) == t.due_date # NoDue /\ t.due_date # BadDue

SortStep == last'.op = "get_sorted_by_urgency"

\* C18: for any two tasks and any today a task of higher priority never has a
\* lower urgency score than a task of lower priority, so that
\* get_sorted_by_urgency never places a lower-priority task before a
\* higher-priority one.
C18_PriorityDominates ==
  [][SortStep =>
       LET W(i) == LevelWeight(tasks[i].priority_level)
           n    == Len(tasks)
       IN  /\ \A i \in 1..n, j \in 1..n :
                W(i) > W(j) =>
                  ComputeUrgencyScore(tasks[i], last'.today)
                    >= ComputeUrgencyScore(tasks[j], last'.today)
           /\ \A a \in 1..n, b \in 1..n :
                a < b => W(last'.sorted[a]) >= W(last'.sorted[b])]_vars

\* C18 as amended: a High task always has a strictly higher urgency score
\* than a Low task and a Normal task never a lower score than a Low task, so
\* that get_sorted_by_urgency never places a Low task before a High one.
C18_HighAboveLow ==
  [][SortStep =>
       LET P(i)  == tasks[i].priority_level
           U(i)  == ComputeUrgencyScore(tasks[i], last'.today)
           n     == Len(tasks)
       IN  /\ \A i \in 1..n, j \in 1..n :
                /\ (P(i) = High /\ P(j) = Low) => U(i) > U(j)
                /\ (P(i) = Normal /\ P(j) = Low) => U(i) >= U(j)
           /\ \A a \in 1..n, b \in 1..n :
                a < b => ~(P(last'.sorted[a]) = Low /\ P(last'.sorted[b]) = High)]_vars

\* An overdue Low task stands first in the collection and a High task without
\* due date is returned before it.
C18_Witness ==
  /\ last.op = "get_sorted_by_urgency"
  /\ Len(tasks) = 2
  /\ tasks[1].priority_level = Low /\ tasks[1].due_date = 1 /\ last.today > 1
  /\ tasks[2].priority_level = High /\ tasks[2].due_date = NoDue
  /\ last.sorted = <<2, 1>>

\* C19: for two tasks with the same due_date (both absent included) and the
\* same today, the urgency of High is strictly greater than that of Normal,
\* which is strictly greater than that of Low.
C19_SameDueOrderedByPriority ==
  [][SortStep =>
       \A i \in 1..Len(tasks), j \in 1..Len(tasks) :
         (/\ tasks[i].due_date = tasks[j].due_date
          /\ LevelWeight(tasks[i].priority_level)
               > LevelWeight(tasks[j].priority_level)) =>
           last'.scores[i] > last'.scores[j]]_vars

C19_Witness ==
  /\ last.op = "get_sorted_by_urgency"
  /\ Len(tasks) = 3
  /\ tasks[1].priority_level = Low /\ tasks[2].priority_level = Normal
  /\ tasks[3].priority_level = High
  /\ \A i \in 1..3 : tasks[i].due_date = MaxDay - 1
  /\ last.today = MaxDay - 8
  /\ last.scores[1] < last.scores[2] /\ last.scores[2] < last.scores[3]

\* C20: get_sorted_by_urgency returns a permutation of the whole collection
\* in non-increasing order of compute_urgency_score in which tasks of equal
\* score keep their relative order, and does not modify the collection.
C20_SortedStablePermutation ==
  [][SortStep =>
       LET n    == Len(tasks)
           out  == last'.sorted
           U(i) == ComputeUrgencyScore(tasks[i], last'.today)
       IN  /\ Len(out) = n
           /\ \A i \in 1..n : \E a \in 1..n : out[a] = i
           /\ \A a \in 1..n, b \in 1..n :
                a < b =>
                  /\ U(out[a]) >= U(out[b])
                  /\ U(out[a]) = U(out[b]) => out[a] < out[b]
           /\ UNCHANGED tasks]_vars

\* Three tasks are returned in an order that differs from the collection's,
\* the two of equal score in their original order.
C20_Witness ==
  /\ last.op = "get_sorted_by_urgency"
  /\ Len(tasks) = 3
  /\ last.sorted = <<2, 1, 3>>
  /\ last.scores[1] = last.scores[3]
  /\ last.scores[2] > last.scores[1]

\* The step is a call of snooze_task with the id of a task of the collection.
SnoozePresent == last'.op = "snooze_task" /\ FindTask(tasks, last'.tid) # 0

\* C21: snooze_task(task_id, days) on a present task with a parseable
\* due_date moves the due_date exactly days days later, refreshes updated_at,
\* changes no other field and no other task and returns the task; on a task
\* whose due_date is absent or unparseable it returns None and changes
\* nothing.
C21_SnoozeMovesDueDate ==
  [][SnoozePresent =>
       LET i == FindTask(tasks, last'.tid)
           t == tasks[i]
       IN  /\ ~last'.raised
           /\ HasDueDay(t) =>
                /\ last'.ret = "task"
                /\ tasks'[i].due_date = t.due_date + last'.days
                /\ tasks'[i].updated_at = clock
                /\ [tasks'[i] EXCEPT !.due_date = 0, !.updated_at = 0]
                     = [t EXCEPT !.due_date = 0, !.updated_at = 0]
                /\ Len(tasks') = Len(tasks)
                /\ \A j \in 1..Len(tasks) : j # i => tasks'[j] = tasks[j]
           /\ ~HasDueDay(t) =>
                /\ last'.ret = "none"
                /\ UNCHANGED <<tasks, file, remote>>]_vars

\* A task due on day 10 was snoozed by 3 days next to a second task.
C21_Witness ==
  /\ last.op = "snooze_task" /\ last.ret = "task" /\ last.days = 3
  /\ Len(tasks) = 2
  /\ tasks[1].due_date = 13 /\ tasks[1].updated_at = clock - 1
  /\ tasks[1].created_at < clock - 1

\* C22: get_overdue_tasks returns exactly the tasks whose status is not
\* Completed and whose due_date is a date strictly before today, in the order
\* of the collection; a task to which complete_task has been applied is not
\* returned, tasks with absent or unparseable due_date are excluded, and the
\* call neither raises nor modifies the collection.
C22_OverdueExactly ==
  [][/\ last'.op = "get_overdue_tasks" =>
          LET out == last'.overdue
          IN  /\ last'.ret = "list" /\ ~last'.raised
              /\ \A a \in 1..Len(out), b \in 1..Len(out) : a < b => out[a] < out[b]
              /\ {out[a] : a \in 1..Len(out)} =
                   {i \in 1..Len(tasks) :
                      /\ tasks[i].status # Completed
                      /\ HasDueDay(tasks[i])
                      /\ tasks[i].due_date < last'.today}
              /\ UNCHANGED <<tasks, file, remote>>
     /\ (last'.op = "complete_task" /\ FindTask(tasks, last'.tid) # 0) =>
          \A today \in OverdueTodays :
            \A a \in 1..Len(OverdueTasks(tasks', today)) :
              OverdueTasks(tasks', today)[a] # FindTask(tasks, last'.tid)]_vars

\* Of three tasks due before today the first was completed by complete_task;
\* the other two are returned in collection order.
C22_Witness ==
  /\ last.op = "get_overdue_tasks"
  /\ Len(tasks) = 3
  /\ \A i \in 1..3 : tasks[i].due_date = 2
  /\ last.today = 3
  /\ tasks[1].status = Completed /\ tasks[1].updated_at > tasks[1].created_at
  /\ last.overdue = <<2, 3>>

\* The step is a call of update_task, complete_task, set_priority or
\* snooze_task that found its task and changed it.
MutatedPresent ==
  /\ last'.op \in {"update_task", "complete_task", "set_priority", "snooze_task"}
  /\ last'.ret = "task"

\* C23: the task add_task returns has created_at equal to updated_at, both
\* the time of the call, on the local path and on the remote-insert path;
\* update_task, complete_task, set_priority and snooze_task never change
\* created_at and set updated_at to the time of the call.
C23_TimestampsOfCreationAndMutation ==
  [][/\ (last'.op = "add_task" /\ last'.ret = "task") =>
          /\ tasks'[Len(tasks')].created_at = tasks'[Len(tasks')].updated_at
          /\ tasks'[Len(tasks')].updated_at = clock
     /\ MutatedPresent =>
          /\ tasks'[FindTask(tasks, last'.tid)].created_at
               = tasks[FindTask(tasks, last'.tid)].created_at
          /\ tasks'[FindTask(tasks, last'.tid)].updated_at = clock]_vars

\* The same statement without the remote-insert path of add_task.
C23_WhenCreatedLocally ==
  [][/\ (last'.op = "add_task" /\ last'.ret = "task" /\ ~last'.insertOk) =>
          /\ tasks'[Len(tasks')].created_at = tasks'[Len(tasks')].updated_at
          /\ tasks'[Len(tasks')].updated_at = clock
     /\ (last'.op = "add_task" /\ last'.ret = "task" /\ last'.insertOk) =>
          tasks'[Len(tasks')].updated_at = clock
     /\ MutatedPresent =>
          /\ tasks'[FindTask(tasks, last'.tid)].created_at
               = tasks[FindTask(tasks, last'.tid)].created_at
          /\ tasks'[FindTask(tasks, last'.tid)].updated_at = clock]_vars

\* The level whose name is p without the white space around it, compared
\* without regard to case; Normal when there is none.
LevelNamed(p) ==
  IF \E k \in 1..3 : StrLower(StrStrip(p)) = StrLower(PRIORITY_LEVELS[k])
  THEN PRIORITY_LEVELS[CHOOSE k \in 1..3 :
                         StrLower(StrStrip(p)) = StrLower(PRIORITY_LEVELS[k])]
  ELSE Normal

C24_WitnessTrimmed ==
  /\ last.op = "normalize_priority"
  /\ last.raw = <<" ", "h", "I", "G", "H", "\t", "\n">>
  /\ last.level = High

\* C25: PriorityTask.from_dict(task.to_dict()) equals the task in every
\* field for every task with a canonical priority_level and a due_date that
\* is absent or a valid date; a collection saved to the Local Store and
\* loaded back by a manager without remote store is the same collection in
\* the same order.
C25_RoundTrip ==
  [][/\ last'.op = "from_dict" => last'.parsed = tasks[last'.tid]
     /\ (last.op = "save_json" /\ last'.op = "load") => tasks' = tasks]_vars

\* Two tasks that differ were saved and loaded back in their order.
C25_Witness ==
  /\ last.op = "load"
  /\ Len(last.before) = MaxSorted
  /\ last.before[1].priority_level = High
  /\ last.before[1].due_date = MaxDue
  /\ last.before[2].priority_level = Low
  /\ last.before[2].status = Completed
  /\ tasks = last.before
  /\ file = ToListOfDicts(tasks)

\* The task is in the Local Store file f.
Stored(f, t) == \E k \in 1..Len(f) : f[k] = ToDict(t)

\* The collection ts holds the task t (its id and its title).
Holds(ts, t) ==
  \E j \in 1..Len(ts) : ts[j].task_id = t.task_id /\ ts[j].title = t.title

\* C26: every task that was in the in-memory collection and in the Local
\* Store when the process stopped is in the in-memory collection of the
\* manager constructed next, with the remote store active or not, tasks
\* created while the remote insert failed included.
C26_RestartLosesNoTask ==
  [][last'.op = "load" =>
       \A i \in 1..Len(tasks) :
          Stored(file, tasks[i]) => Holds(tasks', tasks[i])]_vars

\* The same statement for a manager without remote store.
C26_WhenRemoteInactive ==
  [][(last'.op = "load" /\ ~supabase) =>
       \A i \in 1..Len(tasks) :
          Stored(file, tasks[i]) => Holds(tasks', tasks[i])]_vars

\* The sync step inserted the task at index i into the remote table: it was
\* passed to add_task_to_db and took the id of a row the step added.
InsertedBySync(i) ==
  /\ \E c \in 1..Len(last'.calls) : last'.calls[c] = i
  /\ \E k \in (Len(remote) + 1)..Len(remote') : remote'[k].id = tasks'[i].task_id

\* The remote table holds a row with the id of the task.
InRemote(t) == \E k \in 1..Len(remote) : remote[k].id = t.task_id

\* C27: a sync_with_remote call never inserts a task that the remote store
\* already holds (one pushed or pulled by an earlier call), also when its
\* snapshot fetch fails and the adapter reports no rows: over any sequence
\* of calls each local task is inserted at most once.
C27_PushedAtMostOnce ==
  [][SyncStep =>
       \A i \in 1..Len(tasks) : InsertedBySync(i) => ~InRemote(tasks[i])]_vars

\* The same statement for the calls whose snapshot fetch succeeds.
C27_WhenFetchSucceeds ==
  [][(SyncStep /\ last'.sel = "ok") =>
       \A i \in 1..Len(tasks) : InsertedBySync(i) => ~InRemote(tasks[i])]_vars

\* The step is a sync_with_remote call whose fetch and inserts all succeed.
SyncAllOk ==
  /\ SyncStep
  /\ last'.sel = "ok"
  /\ ~last'.caught
  /\ Len(remote') = Len(remote) + Len(last'.calls)

\* The call before the step was a sync_with_remote whose fetch and inserts
\* all succeeded: every task it passed to add_task_to_db has a remote row.
AfterSyncAllOk ==
  /\ last.op = "sync"
  /\ supabase
  /\ last.sel = "ok"
  /\ ~last.caught
  /\ \A c \in 1..Len(last.calls) : InRemote(tasks[last.calls[c]])

IdsOf(ts) == {ts[i].task_id : i \in 1..Len(ts)}
RemoteIdsOf(rem) == {rem[k].id : k \in 1..Len(rem)}

\* The step is the second of two successful sync_with_remote calls made
\* one after the other with the same prefer_local.
SecondSync == AfterSyncAllOk /\ SyncAllOk /\ last'.prefer = last.prefer

C29_PreferLocalReachesRemote ==
  [][(SyncAllOk /\ last'.prefer) =>
       \A i \in 1..Len(tasks'), k \in 1..Len(remote') :
          remote'[k].id = tasks'[i].task_id =>
            /\ remote'[k].title = tasks'[i].title
            /\ remote'[k].due_date = tasks'[i].due_date
            /\ remote'[k].status = tasks'[i].status
            /\ NormalizePriority(RowPriority(remote'[k])) = tasks'[i].priority_level]_vars

\* C30: when the edit dialog is saved with a changed priority, the task has
\* the new priority_level and the Local Store row of the task has the same
\* priority as the task when the handler returns.
C30_EditedPriorityIsStored ==
  [][(/\ last'.op = "save_changes"
      /\ tasks[FindTask(tasks, last'.tid)].priority_level # last'.raw) =>
       LET i == FindTask(tasks, last'.tid)
       IN  /\ tasks'[i].priority_level = last'.raw
           /\ Len(file') = Len(tasks')
           /\ file'[i].id = tasks'[i].task_id
           /\ file'[i].priority = tasks'[i].priority_level]_vars

\* The same statement for the fields other than the priority: they are in
\* the Local Store row when the handler returns.
C30_OtherFieldsAreStored ==
  [][last'.op = "save_changes" =>
       LET i == FindTask(tasks, last'.tid)
       IN  /\ Len(file') = Len(tasks')
           /\ file'[i].id = tasks'[i].task_id
           /\ file'[i].title = tasks'[i].title
           /\ file'[i].due_date = tasks'[i].due_date
           /\ file'[i].status = tasks'[i].status]_vars

====
